---------------------------- MODULE Spec2Model ----------------------------
(***************************************************************************)
(* A model of the voice-call dialogue controller of app.py: the /relay     *)
(* websocket handler (one sequential event loop per call), the field       *)
(* extractors it uses, the Name Collector and the persistence functions.   *)
(*                                                                         *)
(* An utterance is a sequence of whitespace-separated tokens.  A regular   *)
(* expression of the source is modelled by what it matches on such token   *)
(* sequences: a keyword alternative between \b...\b is a token (or a run   *)
(* of adjacent tokens) compared after lower-casing.                        *)
(***************************************************************************)
EXTENDS Integers, Sequences, FiniteSets, TLC

NONE == "none"

\* ------------------------------------------------------------------ bounds
\* Prompt events with non-empty text handled in one call.
MaxTurns == 2

\* ------------------------------------------------------------- vocabulary
U_EMPTY    == << >>
U_YES      == <<"yes">>
U_ENGLISH  == <<"english">>
U_ESPANOL  == <<"espanol">>
U_OPTOUT   == <<"do", "not", "call", "me", "again">>
U_DATETIME == <<"thursday", "at", "1pm">>
U_NAME     == <<"John", "Smith">>
U_ADDRESS  == <<"123", "Main", "St">>
U_PHONE    == <<"510-555-9876">>
U_QUESTION == <<"what", "is", "this", "about">>

Utterances ==
  { U_EMPTY, U_YES, U_ENGLISH, U_ESPANOL, U_OPTOUT, U_DATETIME,
    U_NAME, U_ADDRESS, U_PHONE, U_QUESTION }

\* caller ids a setup event may carry ("" is an absent caller id)
CallerIds == { "", "+1555010002" }

\* str.lower() on the tokens of the vocabulary
Lower(t) ==
  CASE t = "John"  -> "john"
    [] t = "Smith" -> "smith"
    [] t = "Main"  -> "main"
    [] t = "St"    -> "st"
    [] OTHER       -> t

\* number of characters of a token
TokLen(t) ==
  CASE t \in {"me", "at", "St", "do", "is"}                    -> 2
    [] t \in {"yes", "not", "1pm", "123"}                      -> 3
    [] t \in {"call", "John", "Main", "what", "this", "that"}  -> 4
    [] t \in {"again", "Smith", "about"}                       -> 5
    [] t \in {"english", "espanol"}                            -> 7
    [] t = "thursday"                                          -> 8
    [] t = "510-555-9876"                                      -> 12
    [] OTHER                                                   -> 4

\* number of decimal digits in a token
DigitsIn(t) ==
  CASE t = "123"          -> 3
    [] t = "1pm"          -> 1
    [] t = "510-555-9876" -> 10
    [] OTHER              -> 0

\* the token ends in a run of 1 to 6 digits that starts at a word boundary
EndsInNumber(t) == t \in {"123", "510-555-9876"}

\* the maximal letter-initial runs of a token (NameCollector.tokens, line 349)
LetterRuns(t) ==
  CASE t = "1pm"                       -> <<"pm">>
    [] t \in {"123", "510-555-9876"}   -> << >>
    [] OTHER                           -> <<t>>

\* ---------------------------------------------------------- regex helpers
HasWord(u, words) == \E i \in 1..Len(u) : Lower(u[i]) \in words

HasPhrase(u, p) ==
  \E i \in 1..Len(u) :
     /\ i + Len(p) - 1 <= Len(u)
     /\ \A j \in 1..Len(p) : Lower(u[i + j - 1]) = p[j]

HasAnyPhrase(u, ps) == \E p \in ps : HasPhrase(u, p)

YesWords == {"yes", "yeah", "yep", "correct", "confirmed", "ok", "okay",
             "si", "sí", "claro", "correcto"}

YES_RE(u) ==
  \/ HasWord(u, YesWords)
  \/ HasAnyPhrase(u, {<<"that", "works">>, <<"sounds", "good">>, <<"de", "acuerdo">>})

SCHEDULING_HINT_RE(u) ==
  \/ HasWord(u, {"schedule", "book", "appointment", "consult", "cita",
                 "agendar", "programar"})
  \/ HasPhrase(u, <<"set", "up">>)

OPT_OUT_RE(u) ==
  \/ HasWord(u, {"optout", "donotcontact", "donotcall", "don'tcall", "stop",
                 "unsubscribe", "quitar", "baja"})
  \/ HasAnyPhrase(u, {<<"opt", "out">>, <<"do", "not", "contact">>,
                      <<"do", "not", "call">>, <<"don't", "call">>,
                      <<"remove", "me">>, <<"take", "me", "off">>,
                      <<"no", "me", "llames">>, <<"no", "me", "contacten">>})

LANG_ES_RE(u) == HasWord(u, {"espanol", "espánol", "spanish", "2"})

LANG_EN_RE(u) == HasWord(u, {"english", "ingles", "inglés", "1"})

DATE_CLARIFY_RE(u) ==
  HasAnyPhrase(u, {<<"what", "date", "is", "that">>, <<"what", "day", "is", "that">>,
                   <<"which", "day", "is", "that">>, <<"qué", "día">>, <<"qué", "dia">>,
                   <<"qué", "fecha">>, <<"que", "fecha">>})


\* ------------------------------------------------------- field extractors
\* Text values (names, addresses, phone numbers, caller ids) are token
\* sequences; Python's None and "" are both the empty sequence.
Truthy(v) == v # << >>

\* characters of the tokens u[i..Len(u)] joined by single blanks
RECURSIVE CharsFrom(_, _)
CharsFrom(u, i) ==
  IF i > Len(u) THEN 0
  ELSE TokLen(u[i]) + (IF i < Len(u) THEN 1 ELSE 0) + CharsFrom(u, i + 1)

\* positions where STREET_RE matches: a number, blanks, then at least four
\* characters of street text
StreetAt(u) ==
  { i \in 1..Len(u) : EndsInNumber(u[i]) /\ i < Len(u) /\ CharsFrom(u, i + 1) >= 4 }

STREET_RE(u) == StreetAt(u) # {}

Min(S) == CHOOSE x \in S : \A y \in S : x <= y

\* STREET_RE.search(text).group(0).strip()
StreetMatch(u) == SubSeq(u, Min(StreetAt(u)), Len(u))

AddrHintWords == {"address"}

AddrHintPhrases == {<<"la", "direccion">>, <<"la", "dirección">>, <<"la", "propiedad">>}

\* first position of an ADDR_HINT_RE keyword that is followed by more text
HintAt(u) ==
  { i \in 1..Len(u) :
      \/ (Lower(u[i]) \in AddrHintWords /\ i < Len(u))
      \/ \E p \in AddrHintPhrases :
            /\ i + 1 < Len(u)
            /\ Lower(u[i]) = p[1] /\ Lower(u[i + 1]) = p[2] }

\* group(2) of ADDR_HINT_RE for a two-word Spanish keyword at position i
HintRest(u, i) ==
  LET r == SubSeq(u, i + 2, Len(u))
  IN  IF Len(r) > 1 /\ Lower(r[1]) \in {"is", "es"} THEN Tail(r) ELSE r

maybe_extract_address(u) ==
  LET viaHint ==
        IF HintAt(u) = {} THEN << >>
        ELSE LET i == Min(HintAt(u))
             IN  IF HasWord(SubSeq(u, i, Len(u)), {"address"})
                 THEN << >>    \* group(1) is the keyword itself: no street in it
                 ELSE IF STREET_RE(HintRest(u, i)) THEN HintRest(u, i) ELSE << >>
  IN  IF Truthy(viaHint) THEN viaHint
      ELSE IF STREET_RE(u) THEN StreetMatch(u)
      ELSE << >>

is_full_street_address(a) == Truthy(a) /\ STREET_RE(a)

RECURSIVE DigitCount(_)
DigitCount(u) == IF u = << >> THEN 0 ELSE DigitsIn(Head(u)) + DigitCount(Tail(u))

\* the number as a token sequence: the prefix put before the digits, then
\* the tokens the digits came from
maybe_extract_phone(u) ==
  LET n == DigitCount(u)
  IN  IF n >= 10 /\ n <= 15
      THEN IF n = 10 THEN <<"+1">> \o u ELSE <<"+">> \o u
      ELSE << >>

\* ---------------------------------------------------------- Name Collector
NoCollector == [exists |-> FALSE, first |-> NONE, last |-> NONE,
                repeats |-> 0, last_input |-> << >>]

NewCollector == [exists |-> TRUE, first |-> NONE, last |-> NONE,
                 repeats |-> 0, last_input |-> << >>]

RECURSIVE NameTokens(_)
NameTokens(u) == IF u = << >> THEN << >> ELSE LetterRuns(Head(u)) \o NameTokens(Tail(u))

LowerAll(u) == [i \in 1..Len(u) |-> Lower(u[i])]

\* a slip: the fast path is taken only while no first name is held
observe_m(nc, u) ==
  LET toks == NameTokens(u)
      rep  == IF toks # << >> /\ LowerAll(toks) = LowerAll(nc.last_input)
              THEN nc.repeats + 1 ELSE 0
      nc1  == [nc EXCEPT !.repeats = rep, !.last_input = toks]
  IN  IF Len(toks) >= 2 /\ nc1.first = NONE
      THEN [nc |-> [nc1 EXCEPT !.first = toks[1], !.last = toks[2]],
            done |-> TRUE, full |-> <<toks[1], toks[2]>>]
      ELSE IF Len(toks) >= 1
      THEN IF nc1.first = NONE
           THEN [nc |-> [nc1 EXCEPT !.first = toks[1]], done |-> FALSE, full |-> << >>]
           ELSE [nc |-> [nc1 EXCEPT !.last = toks[1]],
                 done |-> TRUE, full |-> <<nc1.first, toks[1]>>]
      ELSE [nc |-> nc1, done |-> FALSE, full |-> << >>]

\* NameCollector.observe: the collector after the call, done and the full name
observe(nc, u) ==
  LET toks == NameTokens(u)
      rep  == IF toks # << >> /\ LowerAll(toks) = LowerAll(nc.last_input)
              THEN nc.repeats + 1 ELSE 0
      nc1  == [nc EXCEPT !.repeats = rep, !.last_input = toks]
  IN  IF Len(toks) >= 2
      THEN [nc |-> [nc1 EXCEPT !.first = toks[1], !.last = toks[2]],
            done |-> TRUE, full |-> <<toks[1], toks[2]>>]
      ELSE IF Len(toks) = 1
      THEN IF nc1.first = NONE
           THEN [nc |-> [nc1 EXCEPT !.first = toks[1]], done |-> FALSE, full |-> << >>]
           ELSE [nc |-> [nc1 EXCEPT !.last = toks[1]],
                 done |-> TRUE, full |-> <<nc1.first, toks[1]>>]
      ELSE [nc |-> nc1, done |-> FALSE, full |-> << >>]

need_tail(nc) == nc.first # NONE /\ nc.last = NONE

\* ------------------------------------------------------------ date phrases
\* a datetime is a date and a time; None is NoDt
NoDt == [date |-> NONE, time |-> NONE]

\* the reference "now" of a call (datetime.now(TZ))
NowDt == [date |-> "today", time |-> "now"]

\* when_phrase raises (AttributeError on None.strftime) when given None
when_phrase_raises(dt) == dt = NoDt

when_phrase(dt, lang) == <<dt.date, dt.time, IF lang = "en" THEN "en" ELSE "es">>

\* datetime.combine(d, t, tzinfo=TZ) raises TypeError when either is None
combine_raises(d, t) == d = NONE \/ t = NONE

combine(d, t) == [date |-> d, time |-> t]

\* --------------------------------------------------------- date parsing
\* A date is a day number; its weekday (date.weekday(), Monday = 0) is the
\* number modulo 7.  parse_date_phrase returns a date or None.
NoDate == [some |-> FALSE, ord |-> 0]

DateOf(n) == [some |-> TRUE, ord |-> n]

weekday(n) == n % 7

\* WEEKDAYS (app.py 169-170), in the order of the dict
WeekdayNames ==
  << "monday", "tuesday", "wednesday", "thursday", "friday", "saturday", "sunday",
     "lunes", "martes", "miercoles", "miércoles", "jueves", "viernes", "sabado",
     "sábado", "domingo" >>

WEEKDAYS(name) ==
  CASE name \in {"monday", "lunes"}                       -> 0
    [] name \in {"tuesday", "martes"}                     -> 1
    [] name \in {"wednesday", "miercoles", "miércoles"}   -> 2
    [] name \in {"thursday", "jueves"}                    -> 3
    [] name \in {"friday", "viernes"}                     -> 4
    [] name \in {"saturday", "sabado", "sábado"}          -> 5
    [] OTHER                                              -> 6

\* a slip: the step to next week when today is the named weekday is left out
next_weekday_m(now, target) == now + ((target - weekday(now)) % 7)

\* _next_weekday (app.py 174-178)
next_weekday(now, target) ==
  LET days_ahead == (target - weekday(now)) % 7
  IN  now + (IF days_ahead = 0 THEN 7 ELSE days_ahead)

\* int(...) of the digit tokens of the vocabulary
IntOf(t) == CASE t = "3" -> 3 [] t = "123" -> 123 [] OTHER -> 0

\* "in N days" / "en N dias" (app.py 183): the positions of N
InDaysAt(u) ==
  { i \in 2..(Len(u) - 1) :
      /\ Lower(u[i - 1]) \in {"in", "en"}
      /\ u[i] \in {"3", "123"}
      /\ Lower(u[i + 1]) \in (IF Lower(u[i - 1]) = "in" THEN {"day", "days"}
                              ELSE {"dia", "dias", "día", "días"}) }

\* the first weekday name, in the order of WEEKDAYS, that the text holds
FirstWeekday(u) ==
  LET found == { k \in 1..Len(WeekdayNames) : HasWord(u, {WeekdayNames[k]}) }
  IN  WeekdayNames[Min(found)]

\* parse_date_phrase (app.py 180-232) on texts that name no month and hold no
\* numeric date: the branches at 197-230 do not match them
parse_date_phrase(u, now) ==
  IF InDaysAt(u) # {} THEN DateOf(now + IntOf(u[Min(InDaysAt(u))]))
  ELSE IF HasWord(u, {"today", "hoy"}) THEN DateOf(now)
  ELSE IF HasWord(u, {"tomorrow", "manana", "mañana"}) THEN DateOf(now + 1)
  ELSE IF \E k \in 1..Len(WeekdayNames) : HasWord(u, {WeekdayNames[k]})
  THEN DateOf(next_weekday(now, WEEKDAYS(FirstWeekday(u))))
  ELSE NoDate

\* ------------------------------------------------------------ session state
\* the state dict of relay (app.py 477-492)
InitState ==
  [ lang            |-> NONE,
    lang_prompted   |-> FALSE,
    mode            |-> NONE,
    need            |-> NONE,
    hold_date       |-> NONE,
    hold_time       |-> NONE,
    hold_dt         |-> NoDt,
    hold_name       |-> << >>,
    hold_address    |-> << >>,
    hold_phone      |-> << >>,
    offered_booking |-> FALSE,
    capture_next    |-> NONE,
    name_collector  |-> NoCollector,
    name_buffer     |-> << >> ]

Langs == {"en", "es"}

\* ----------------------------------------------------------------- frames
\* send_text: one spoken reply; its last chunk goes out with last = true
\* (the chunks before it, cut at 40 characters, carry last = false)
TextFrame(key, lang, args) ==
  [type |-> "text", key |-> key, lang |-> lang, args |-> args, last |-> TRUE]

\* set_cr_language
LanguageFrame(tts, stt) ==
  [type |-> "language", key |-> tts, lang |-> stt, args |-> << >>, last |-> FALSE]

\* ------------------------------------------------- one turn of the handler
\* The handler's progress through one event: the session state, the history,
\* the frames sent, the files, whether the turn has ended (continue) and
\* whether an exception left the handler (only WebSocketDisconnect is caught,
\* app.py 767).
Upd(c, f, v) == [c EXCEPT !.st = [c.st EXCEPT ![f] = v]]

Finish(c) == [c EXCEPT !.done = TRUE]

Raise(c) == [c EXCEPT !.done = TRUE, !.crashed = TRUE]

\* await send_text(ws, <literal>)
SayLit(c, key, args) == [c EXCEPT !.out = Append(@, TextFrame(key, c.st.lang, args))]

\* await send_text(ws, MESSAGES[lang][key].format(...)): KeyError when lang is None
SayMsg(c, lang, key, args) ==
  IF lang \notin Langs THEN Raise(c)
  ELSE [c EXCEPT !.out = Append(@, TextFrame(key, lang, args))]

\* ------------------------------------------------------------ persistence
Days == {"today", "thu"}

Today == "today"

\* a character that str.splitlines() (and str.strip()) takes for a line end but
\* json.dumps(..., ensure_ascii=False) writes out raw: U+2028 (as are U+2029
\* and U+0085)
LS == "U+2028"

\* str.strip(): leading and trailing whitespace is dropped
RECURSIVE strip(_)
strip(t) ==
  IF t = << >> THEN t
  ELSE IF Head(t) = LS THEN strip(Tail(t))
  ELSE IF t[Len(t)] = LS THEN strip(SubSeq(t, 1, Len(t) - 1))
  ELSE t

\* make_ics: the text of a calendar file (its UID, DTSTART, DTEND and
\* DESCRIPTION lines)
make_ics(uid, start_dt, end_dt, description) ==
  [uid |-> uid, dtstart |-> start_dt, dtend |-> end_dt, description |-> description]

\* Path.write_text: the file of that name is created or replaced
write_text(files, name, text) ==
  { f \in files : f.name # name } \cup { [name |-> name, text |-> text] }

\* a slip in the mode: open(day's file, "w") truncates the log before writing
write_jsonl_for_day_m(c, day, rec) == [c EXCEPT !.logs[day] = <<rec>>]

\* _write_jsonl_for_day: open(day's file, "a") and write json.dumps(rec) + "\n";
\* a log is the sequence of the records so written, each standing for its text
write_jsonl_for_day(c, day, rec) == [c EXCEPT !.logs[day] = Append(@, rec)]

\* a slip in the order: the record is appended to the log before the calendar
\* file is written
save_booking_logfirst_m(c, start_dt, caller, name, address, wfail) ==
  LET end_dt == <<start_dt.date, start_dt.time, "+30min">>
      rec == [type |-> "booking", id |-> c.nextId, created_at |-> <<"utcnow">>,
              start |-> <<start_dt.date, start_dt.time>>,
              end |-> end_dt,
              caller |-> caller, name |-> strip(name), address |-> strip(address),
              note |-> <<"Consultation">>, calendar_link |-> << >>]
      mirror == [rec EXCEPT !.note = <<"Consultation", "mirror=true">>]
      ics_text == make_ics(rec.id, rec.start, end_dt, <<caller, rec.name, rec.address>>)
      c0 == [c EXCEPT !.calls = Append(@, "save_booking")]
      c1 == [c0 EXCEPT !.nextId = @ + 1]
      c2 == write_jsonl_for_day(c1, start_dt.date, rec)
      c3 == [c2 EXCEPT !.ics = write_text(@, rec.id, ics_text), !.saved = Append(@, rec)]
      c4 == write_jsonl_for_day(c3, Today, mirror)
  IN  IF start_dt = NoDt THEN Raise(c0)
      ELSE IF wfail = "log" THEN Raise(c1)
      ELSE IF wfail = "ics" THEN Raise(c2)
      ELSE IF wfail = "mirror" THEN c3
      ELSE c4

\* a slip: the record is filed under the date of the call, datetime.now(TZ).date()
save_booking_m(c, start_dt, caller, name, address, wfail) ==
  LET end_dt == <<start_dt.date, start_dt.time, "+30min">>
      rec == [type |-> "booking", id |-> c.nextId, created_at |-> <<"utcnow">>,
              start |-> <<start_dt.date, start_dt.time>>,
              end |-> end_dt,
              caller |-> caller, name |-> strip(name), address |-> strip(address),
              note |-> <<"Consultation">>, calendar_link |-> << >>]
      mirror == [rec EXCEPT !.note = <<"Consultation", "mirror=true">>]
      ics_text == make_ics(rec.id, rec.start, end_dt, <<caller, rec.name, rec.address>>)
      c0 == [c EXCEPT !.calls = Append(@, "save_booking")]
      c1 == [c0 EXCEPT !.nextId = @ + 1]
      c2 == [c1 EXCEPT !.ics = write_text(@, rec.id, ics_text)]
      c3 == [write_jsonl_for_day(c2, Today, rec) EXCEPT !.saved = Append(@, rec)]
      c4 == write_jsonl_for_day(c3, Today, mirror)
  IN  IF start_dt = NoDt THEN Raise(c0)
      ELSE IF wfail = "ics" THEN Raise(c1)
      ELSE IF wfail = "log" THEN Raise(c2)
      ELSE IF wfail = "mirror" THEN c3
      ELSE c4

\* save_booking (app.py 100-129); wfail names the write that fails, if any
save_booking(c, start_dt, caller, name, address, wfail) ==
  LET end_dt == <<start_dt.date, start_dt.time, "+30min">>
      rec == [type |-> "booking", id |-> c.nextId, created_at |-> <<"utcnow">>,
              start |-> <<start_dt.date, start_dt.time>>,
              end |-> end_dt,
              caller |-> caller, name |-> strip(name), address |-> strip(address),
              note |-> <<"Consultation">>, calendar_link |-> << >>]
      mirror == [rec EXCEPT !.note = <<"Consultation", "mirror=true">>]
      ics_text == make_ics(rec.id, rec.start, end_dt, <<caller, rec.name, rec.address>>)
      c0 == [c EXCEPT !.calls = Append(@, "save_booking")]
      c1 == [c0 EXCEPT !.nextId = @ + 1]
      c2 == [c1 EXCEPT !.ics = write_text(@, rec.id, ics_text)]
      c3 == [write_jsonl_for_day(c2, start_dt.date, rec) EXCEPT !.saved = Append(@, rec)]
      c4 == write_jsonl_for_day(c3, Today, mirror)
  IN  IF start_dt = NoDt THEN Raise(c0)
      ELSE IF wfail = "ics" THEN Raise(c1)
      ELSE IF wfail = "log" THEN Raise(c2)
      ELSE IF wfail = "mirror" THEN c3
      ELSE c4

\* a slip: the opt-out rewrites the day's log with its own record alone
save_optout_m(c, caller, name, address, wfail) ==
  LET rec == [type |-> "optout", id |-> c.nextId, created_at |-> <<"utcnow">>,
              start |-> << >>, end |-> << >>,
              caller |-> caller, name |-> strip(name), address |-> strip(address),
              note |-> <<"DNC request">>, calendar_link |-> << >>]
      c1 == [c EXCEPT !.calls = Append(@, "save_optout"), !.nextId = @ + 1]
  IN  IF wfail = "log" THEN Raise(c1)
      ELSE [c1 EXCEPT !.logs[Today] = <<rec>>, !.saved = Append(@, rec)]

\* save_optout (app.py 131-143)
save_optout(c, caller, name, address, wfail) ==
  LET rec == [type |-> "optout", id |-> c.nextId, created_at |-> <<"utcnow">>,
              start |-> << >>, end |-> << >>,
              caller |-> caller, name |-> strip(name), address |-> strip(address),
              note |-> <<"DNC request">>, calendar_link |-> << >>]
      c0 == [c EXCEPT !.calls = Append(@, "save_optout")]
      c1 == [c0 EXCEPT !.nextId = @ + 1]
  IN  IF wfail = "log" THEN Raise(c1)
      ELSE [write_jsonl_for_day(c1, Today, rec) EXCEPT !.saved = Append(@, rec)]

\* ---------------------------------------------------------------- reports
\* A log file may also hold lines that no save_* call wrote (a file edited or
\* damaged outside the program).  Such a line is one of:
\*   "garbage"      text that is not JSON (a cut-off record, a blank line)
\*   "scalar"       JSON that is not an object (123, [], null)
\*   "object"       a JSON object without the keys of a record ({})
\*   "undecodable"  bytes that are not UTF-8
ForeignKinds == {"garbage", "scalar", "object", "undecodable"}

ForeignLine(kind) == [type |-> "foreign", kind |-> kind]

IsForeign(rec) == rec.type = "foreign"

\* p.read_text(encoding="utf-8") (app.py 152, outside the try) raises
\* UnicodeDecodeError when the file holds bytes that are not UTF-8
read_text_raises(log) ==
  \E i \in 1..Len(log) : IsForeign(log[i]) /\ log[i].kind = "undecodable"

RECURSIVE CountLS(_)
CountLS(t) ==
  IF t = << >> THEN 0 ELSE (IF Head(t) = LS THEN 1 ELSE 0) + CountLS(Tail(t))

\* the number of lines str.splitlines() finds in json.dumps(rec) + "\n": the
\* text fields are written out raw, so each line-end character inside one of
\* them cuts the text once more
Pieces(rec) ==
  IF IsForeign(rec) THEN 1
  ELSE 1 + CountLS(rec.caller) + CountLS(rec.name) + CountLS(rec.address)

\* p.read_text(encoding="utf-8").splitlines()
RECURSIVE splitlines(_)
splitlines(log) ==
  IF log = << >> THEN << >>
  ELSE [i \in 1..Pieces(Head(log)) |->
           [of |-> Head(log), piece |-> i, pieces |-> Pieces(Head(log))]]
       \o splitlines(Tail(log))

\* json.loads(line) raises on a piece of a record's text and on text that is
\* not JSON, and returns the value on the whole of a JSON text
json_loads_raises(line) ==
  \/ line.pieces # 1
  \/ IsForeign(line.of) /\ line.of.kind = "garbage"

json_loads(line) == line.of

\* j.get(...) (app.py 156) raises AttributeError when j is not a dict
get_raises(j) == IsForeign(j) /\ j.kind = "scalar"

DQ == "\""

header ==
  << <<"id">>, <<"record_type">>, <<"created_at">>, <<"caller">>, <<"name">>,
     <<"address">>, <<"appointment_start">>, <<"appointment_end">>, <<"note">>,
     <<"calendar_link">> >>

\* '"{}"'.format(str(x).replace('"', '""'))
RECURSIVE DoubleQuotes(_)
DoubleQuotes(t) ==
  IF t = << >> THEN << >>
  ELSE (IF Head(t) = DQ THEN <<DQ, DQ>> ELSE <<Head(t)>>) \o DoubleQuotes(Tail(t))

safe(x) == <<DQ>> \o DoubleQuotes(x) \o <<DQ>>

\* the row of a line that parsed (app.py 155-159); a key the object lacks
\* gives the default ""
ReportRow(j) ==
  IF IsForeign(j) THEN [k \in 1..10 |-> << >>]
  ELSE << <<ToString(j.id)>>, <<j.type>>, j.created_at, j.caller, j.name, j.address,
          j.start, j.end, j.note, j.calendar_link >>

\* a slip: a line that does not parse gets a row of empty fields, not none
RECURSIVE ReportRows_m(_)
ReportRows_m(lines) ==
  IF lines = << >> THEN << >>
  ELSE (IF json_loads_raises(Head(lines)) THEN << [k \in 1..10 |-> safe(<< >>)] >>
        ELSE << [k \in 1..10 |-> safe(ReportRow(json_loads(Head(lines)))[k])] >>)
       \o ReportRows_m(Tail(lines))

\* the try/except of 153-161: a line whose parsing or whose row raises is skipped
RECURSIVE ReportRows(_)
ReportRows(lines) ==
  IF lines = << >> THEN << >>
  ELSE (IF json_loads_raises(Head(lines)) \/ get_raises(json_loads(Head(lines))) THEN << >>
        ELSE << [k \in 1..10 |-> safe(ReportRow(json_loads(Head(lines)))[k])] >>)
       \o ReportRows(Tail(lines))

\* render_report_csv (app.py 145-166) when the file can be read: the header
\* row, then one row per line of the day's log that parses; the text is the
\* rows joined by "\n"
render_report_csv(lg, day) == <<header>> \o ReportRows(splitlines(lg[day]))

\* get_ics (app.py 442-447): the text of the calendar file, or 404
get_ics(files, bid) ==
  IF \E f \in files : f.name = bid
  THEN [status |-> 200, text |-> (CHOOSE f \in files : f.name = bid).text]
  ELSE [status |-> 404, text |-> NONE]

\* the state.update at 691 and 702
ClearFlow(c) ==
  [c EXCEPT !.st = [c.st EXCEPT !.mode = NONE, !.need = NONE, !.hold_date = NONE,
                                !.hold_time = NONE, !.hold_dt = NoDt,
                                !.hold_name = << >>, !.hold_address = << >>,
                                !.hold_phone = << >>]]

\* ------------------------------------------------- active slot capture
\* when_phrase(state["hold_dt"], lang), then the confirm_booking read-back
ConfirmBookingSay(c) ==
  IF when_phrase_raises(c.st.hold_dt) THEN Raise(c)
  ELSE Finish(SayMsg(c, c.st.lang, "confirm_booking",
                     <<c.st.hold_name, c.st.hold_address,
                       when_phrase(c.st.hold_dt, c.st.lang)>>))

\* app.py 515-545
CaptureName(c, u) ==
  LET nc0 == IF c.st.name_collector.exists THEN c.st.name_collector ELSE NewCollector
      ob  == observe(nc0, u)
      c1  == Upd([c EXCEPT !.calls = Append(@, "observe")], "name_collector", ob.nc)
  IN  IF ob.done /\ Truthy(ob.full)
      THEN Finish(SayMsg(Upd(Upd(Upd(c1, "hold_name", ob.full), "capture_next", NONE),
                             "need", "address"),
                         c1.st.lang, "ask_address", << >>))
      ELSE IF need_tail(ob.nc)
      THEN Finish(Upd(SayLit(c1, "say_last_name", << >>), "capture_next", "name"))
      ELSE IF ob.nc.repeats >= 2
      THEN Finish(Upd(SayLit(c1, "heard_name_confirm",
                             <<IF ob.nc.first = NONE THEN << >> ELSE <<ob.nc.first>> >>),
                      "capture_next", "name"))
      ELSE LET dt == IF c1.st.hold_dt # NoDt THEN c1.st.hold_dt ELSE NowDt
               c2 == SayMsg(c1, c1.st.lang, "ask_name", <<when_phrase(dt, c1.st.lang)>>)
           IN  IF c2.crashed THEN c2 ELSE Finish(Upd(c2, "capture_next", "name"))

\* state["need"] = "phone" if (not caller_number and not state["hold_phone"]) else "confirm"
NeedAfterAddress(c, cn) ==
  IF ~Truthy(cn) /\ ~Truthy(c.st.hold_phone) THEN "phone" ELSE "confirm"

\* (maybe_extract_address(user_text) or user_text).strip()
AddressOf(u) == IF Truthy(maybe_extract_address(u)) THEN maybe_extract_address(u) ELSE u

\* app.py 548-564
CaptureAddress(c, cn, u) ==
  IF is_full_street_address(AddressOf(u))
  THEN LET c1 == Upd(Upd(c, "hold_address", AddressOf(u)), "capture_next", NONE)
           c2 == Upd(c1, "need", NeedAfterAddress(c1, cn))
       IN  IF c2.st.need = "phone"
           THEN Finish(SayMsg(c2, c2.st.lang, "ask_phone", << >>))
           ELSE ConfirmBookingSay(c2)
  ELSE LET c1 == SayMsg(c, c.st.lang, "ask_address", << >>)
       IN  IF c1.crashed THEN c1 ELSE Finish(Upd(c1, "capture_next", "address"))

\* app.py 567-580
CapturePhone(c, u) ==
  IF Truthy(maybe_extract_phone(u))
  THEN ConfirmBookingSay(Upd(Upd(Upd(c, "hold_phone", maybe_extract_phone(u)),
                                 "capture_next", NONE), "need", "confirm"))
  ELSE LET c1 == SayMsg(c, c.st.lang, "ask_phone", << >>)
       IN  IF c1.crashed THEN c1 ELSE Finish(Upd(c1, "capture_next", "phone"))

\* app.py 511-580: capture_next = "name_tail" matches no branch and falls through
CaptureGate(c, cn, u) ==
  CASE c.st.capture_next = "name"    -> CaptureName(c, u)
    [] c.st.capture_next = "address" -> CaptureAddress(c, cn, u)
    [] c.st.capture_next = "phone"   -> CapturePhone(c, u)
    [] OTHER                         -> c

\* app.py 584-612: the legacy need gate (address and phone only)
LegacyGate(c, cn, u) ==
  IF c.done THEN c ELSE
  CASE c.st.need = "address" ->
         IF is_full_street_address(AddressOf(u))
         THEN LET c1 == Upd(c, "hold_address", AddressOf(u))
                  c2 == Upd(c1, "need", NeedAfterAddress(c1, cn))
              IN  IF c2.st.need = "phone"
                  THEN Finish(SayMsg(c2, c2.st.lang, "ask_phone", << >>))
                  ELSE ConfirmBookingSay(c2)
         ELSE Finish(SayMsg(c, c.st.lang, "ask_address", << >>))
    [] c.st.need = "phone" ->
         IF Truthy(maybe_extract_phone(u))
         THEN ConfirmBookingSay(Upd(Upd(c, "hold_phone", maybe_extract_phone(u)),
                                    "need", "confirm"))
         ELSE Finish(SayMsg(c, c.st.lang, "ask_phone", << >>))
    [] OTHER -> c

\* ------------------------------------------------- language selection
\* app.py 638-639: still unknown after the prompt, default to English
DefaultEnglish(c) ==
  LET c1 == Upd(c, "lang", "en")
  IN  [c1 EXCEPT !.out = Append(@, LanguageFrame("en-US", "en-US"))]

\* a slip: lang_prompted is never looked at, so the menu is repeated until a
\* language is named
LanguageChoice_m(c, u) ==
  IF LANG_ES_RE(u)
  THEN LET c1 == Upd(c, "lang", "es")
           c2 == [c1 EXCEPT !.out = Append(@, LanguageFrame("es-ES", "es-ES"))]
           c3 == SayLit(SayMsg(c2, "es", "lang_set_es", << >>), "intro_es", << >>)
       IN  Finish(Upd(c3, "offered_booking", TRUE))
  ELSE IF LANG_EN_RE(u)
  THEN LET c1 == Upd(c, "lang", "en")
           c2 == [c1 EXCEPT !.out = Append(@, LanguageFrame("en-US", "en-US"))]
           c3 == SayLit(SayMsg(c2, "en", "lang_set", << >>), "intro_en", << >>)
       IN  Finish(Upd(c3, "offered_booking", TRUE))
  ELSE Finish(SayMsg(Upd(c, "lang_prompted", TRUE), "en", "lang_choice", << >>))

\* app.py 616-639: the body of the language menu
LanguageChoice(c, u) ==
  IF LANG_ES_RE(u)
  THEN LET c1 == Upd(c, "lang", "es")
           c2 == [c1 EXCEPT !.out = Append(@, LanguageFrame("es-ES", "es-ES"))]
           c3 == SayLit(SayMsg(c2, "es", "lang_set_es", << >>), "intro_es", << >>)
       IN  Finish(Upd(c3, "offered_booking", TRUE))
  ELSE IF LANG_EN_RE(u)
  THEN LET c1 == Upd(c, "lang", "en")
           c2 == [c1 EXCEPT !.out = Append(@, LanguageFrame("en-US", "en-US"))]
           c3 == SayLit(SayMsg(c2, "en", "lang_set", << >>), "intro_en", << >>)
       IN  Finish(Upd(c3, "offered_booking", TRUE))
  ELSE IF ~c.st.lang_prompted
  THEN Finish(SayMsg(Upd(c, "lang_prompted", TRUE), "en", "lang_choice", << >>))
  ELSE DefaultEnglish(c)

\* an indentation slip: the default to English (638-639) is dedented out of
\* the "if not state['lang']" block and runs in every turn that gets there
LanguageSelect_m(c, u) ==
  IF c.done THEN c ELSE
  IF c.st.lang # NONE THEN DefaultEnglish(c) ELSE LanguageChoice(c, u)

\* app.py 615-639: the menu runs only while no language is set
LanguageSelect(c, u) ==
  IF c.done THEN c ELSE
  IF c.st.lang # NONE THEN c ELSE LanguageChoice(c, u)

\* an added branch: an affirmative after the greeting's offer starts a booking
DateClarify_m(c, u) ==
  IF c.done THEN c ELSE
  IF DATE_CLARIFY_RE(u) /\ c.st.hold_dt # NoDt
  THEN Finish(SayLit(c, "when", <<when_phrase(c.st.hold_dt, c.st.lang)>>))
  ELSE IF YES_RE(u) /\ c.st.offered_booking THEN Upd(c, "mode", "booking")
  ELSE c

\* app.py 647-649: quick date clarification
DateClarify(c, u) ==
  IF c.done THEN c ELSE
  IF DATE_CLARIFY_RE(u) /\ c.st.hold_dt # NoDt
  THEN Finish(SayLit(c, "when", <<when_phrase(c.st.hold_dt, c.st.lang)>>))
  ELSE c

\* ---------------------------------------------------------------- opt-out
\* hold_phone or caller_number
PhoneUsed(c, cn) == IF Truthy(c.st.hold_phone) THEN c.st.hold_phone ELSE cn

\* a slip: the opt-out request itself records the opt-out, with no confirmation
OptOutAnytime_m(c, cn, u) ==
  IF c.done THEN c ELSE
  IF ~OPT_OUT_RE(u) THEN c
  ELSE LET c1 == save_optout(Upd(c, "mode", "optout"), PhoneUsed(c, cn),
                             c.st.hold_name, c.st.hold_address, "none")
       IN  Finish(ClearFlow(SayMsg(c1, c1.st.lang, "opt_done", << >>)))

\* app.py 652-666: opt-out anytime
OptOutAnytime(c, cn, u) ==
  IF c.done THEN c ELSE
  IF ~OPT_OUT_RE(u) THEN c
  ELSE LET c1 == Upd(c, "mode", "optout")
       IN  IF ~Truthy(c1.st.hold_name)
           THEN LET c2 == Upd(Upd(Upd(c1, "need", "name"), "capture_next", "name"),
                              "name_collector", NewCollector)
                IN  IF when_phrase_raises(c2.st.hold_dt) THEN Raise(c2)
                    ELSE Finish(SayMsg(c2, c2.st.lang, "ask_name",
                                       <<when_phrase(c2.st.hold_dt, c2.st.lang)>>))
           ELSE IF ~Truthy(c1.st.hold_address)
           THEN Finish(SayMsg(Upd(Upd(c1, "need", "address"), "capture_next", "address"),
                              c1.st.lang, "ask_address", << >>))
           ELSE IF ~Truthy(cn) /\ ~Truthy(c1.st.hold_phone)
           THEN Finish(SayMsg(Upd(Upd(c1, "need", "phone"), "capture_next", "phone"),
                              c1.st.lang, "ask_phone", << >>))
           ELSE ConfirmBookingSay(Upd(c1, "need", "confirm"))

\* app.py 686-693: the opt-out commit
OptOutConfirm(c, cn, u, wfail) ==
  IF YES_RE(u)
  THEN LET c1 == save_optout(c, PhoneUsed(c, cn), c.st.hold_name, c.st.hold_address, wfail)
       IN  IF c1.crashed THEN c1
           ELSE Finish(ClearFlow(SayMsg(c1, c1.st.lang, "opt_done", << >>)))
  ELSE Finish(SayMsg(c, c.st.lang, "please_yes_no", << >>))

\* app.py 668-693: a need other than name, address, phone, confirm falls through
OptOutFlow(c, cn, u, wfail) ==
  IF c.done THEN c ELSE
  IF c.st.mode # "optout" THEN c
  ELSE CASE c.st.need = "name" ->
              IF CharsFrom(u, 1) < 2
              THEN Finish(SayMsg(c, c.st.lang, "ask_name", << << >> >>))
              ELSE Finish(SayMsg(Upd(Upd(c, "hold_name", u), "need", "address"),
                                 c.st.lang, "opt_addr", << >>))
         [] c.st.need = "address" ->
              IF ~is_full_street_address(u)
              THEN Finish(SayMsg(c, c.st.lang, "opt_addr", << >>))
              ELSE LET c1 == Upd(c, "hold_address", u)
                   IN  IF ~Truthy(cn) /\ ~Truthy(c1.st.hold_phone)
                       THEN Finish(SayMsg(Upd(c1, "need", "phone"),
                                          c1.st.lang, "opt_phone", << >>))
                       ELSE Finish(SayMsg(Upd(c1, "need", "confirm"), c1.st.lang, "opt_confirm",
                                          <<c1.st.hold_name, c1.st.hold_address,
                                            PhoneUsed(c1, cn)>>))
         [] c.st.need = "phone" ->
              IF ~Truthy(maybe_extract_phone(u))
              THEN Finish(SayMsg(c, c.st.lang, "opt_phone", << >>))
              ELSE LET c1 == Upd(Upd(c, "hold_phone", maybe_extract_phone(u)),
                                 "need", "confirm")
                   IN  Finish(SayMsg(c1, c1.st.lang, "opt_confirm",
                                     <<c1.st.hold_name, c1.st.hold_address,
                                       c1.st.hold_phone>>))
         [] c.st.need = "confirm" -> OptOutConfirm(c, cn, u, wfail)
         [] OTHER -> c

\* ---------------------------------------------------------------- booking
\* a slip in the guard: the commit branch is taken whenever no opt-out is active
BookingConfirmGate_m(st) == st.mode # "optout"

\* app.py 695: the guard of the booking commit
BookingConfirmGate(st) == st.mode = "booking" /\ st.need = "confirm"

\* app.py 695-704: the booking commit
BookingConfirm(c, cn, u, wfail) ==
  IF c.done THEN c ELSE
  IF ~BookingConfirmGate(c.st) THEN c
  ELSE IF YES_RE(u)
  THEN LET c1 == save_booking(c, c.st.hold_dt, PhoneUsed(c, cn),
                              c.st.hold_name, c.st.hold_address, wfail)
       IN  IF c1.crashed THEN c1
           ELSE Finish(ClearFlow(SayMsg(c1, c1.st.lang, "booked",
                                        <<when_phrase(c.st.hold_dt, c1.st.lang)>>)))
  ELSE Finish(SayMsg(c, c.st.lang, "please_yes_no", << >>))

\* app.py 707-731: hard gate, no model fallthrough while a guided flow is active;
\* with mode None and a pending need it falls through to the chat
HardGate(c, cn) ==
  IF c.done THEN c ELSE
  CASE c.st.mode = "booking" ->
         IF ~Truthy(c.st.hold_name)
         THEN LET c1 == Upd(Upd(Upd(c, "need", "name"), "capture_next", "name"),
                            "name_collector", NewCollector)
              IN  IF when_phrase_raises(c1.st.hold_dt) THEN Raise(c1)
                  ELSE Finish(SayMsg(c1, c1.st.lang, "ask_name",
                                     <<when_phrase(c1.st.hold_dt, c1.st.lang)>>))
         ELSE IF ~Truthy(c.st.hold_address)
         THEN Finish(SayMsg(c, c.st.lang, "ask_address", << >>))
         ELSE IF ~Truthy(cn) /\ ~Truthy(c.st.hold_phone)
         THEN Finish(SayMsg(c, c.st.lang, "ask_phone", << >>))
         ELSE IF combine_raises(c.st.hold_date, c.st.hold_time) THEN Raise(c)
         ELSE Finish(Upd(SayMsg(c, c.st.lang, "confirm_booking",
                                <<c.st.hold_name, c.st.hold_address,
                                  when_phrase(combine(c.st.hold_date, c.st.hold_time),
                                              c.st.lang)>>),
                         "need", "confirm"))
    [] c.st.mode = "optout" ->
         IF ~Truthy(c.st.hold_name)
         THEN Finish(SayMsg(c, c.st.lang, "opt_start", << >>))
         ELSE IF ~Truthy(c.st.hold_address)
         THEN Finish(SayMsg(c, c.st.lang, "opt_addr", << >>))
         ELSE IF ~Truthy(cn) /\ ~Truthy(c.st.hold_phone)
         THEN Finish(SayMsg(c, c.st.lang, "opt_phone", << >>))
         ELSE Finish(Upd(SayMsg(c, c.st.lang, "opt_confirm",
                                <<c.st.hold_name, c.st.hold_address, PhoneUsed(c, cn)>>),
                         "need", "confirm"))
    [] OTHER -> c

\* ----------------------------------------------------------- LLM fallback
LlmOutcomes == {"text", "empty", "raise"}

\* a slip in the except branch: the apology is left empty, so send_text, which
\* drops empty text, sends nothing
ChatFallthrough_m(c, u, llm) ==
  IF c.done THEN c ELSE
  LET ai == CASE llm = "text"  -> "ai_text"
              [] llm = "empty" -> "sorry_repeat"
              [] OTHER         -> ""
      h  == c.hist \o << [role |-> "user", content |-> u],
                         [role |-> "assistant", content |-> <<ai, c.st.lang>>] >>
      c1 == [c EXCEPT !.hist = h, !.calls = Append(@, "llm")]
  IN  Finish(IF ai = "" THEN c1 ELSE SayLit(c1, ai, << >>))

\* a slip: no except clause around the chat call, its exception leaves relay
ChatFallthroughRaises_m(c, u, llm) ==
  IF c.done THEN c ELSE
  LET ai == CASE llm = "text"  -> "ai_text"
              [] llm = "empty" -> "sorry_repeat"
              [] OTHER         -> "trouble"
      h  == c.hist \o << [role |-> "user", content |-> u],
                         [role |-> "assistant", content |-> <<ai, c.st.lang>>] >>
      c1 == [c EXCEPT !.calls = Append(@, "llm")]
  IN  IF llm = "raise" THEN Raise(c1)
      ELSE Finish(SayLit([c1 EXCEPT !.hist = h], ai, << >>))

\* app.py 734-755: the reply is the model's text, a request to repeat when the
\* model returns nothing, or an apology when the call raises
ChatFallthrough(c, u, llm) ==
  IF c.done THEN c ELSE
  LET ai == CASE llm = "text"  -> "ai_text"
              [] llm = "empty" -> "sorry_repeat"
              [] OTHER         -> "trouble"
      h  == c.hist \o << [role |-> "user", content |-> u],
                         [role |-> "assistant", content |-> <<ai, c.st.lang>>] >>
  IN  Finish(SayLit([c EXCEPT !.hist = h, !.calls = Append(@, "llm")], ai, << >>))

\* ------------------------------------------------------------ the handler
Range(f) == { f[i] : i \in DOMAIN f }

VARIABLES
  caller_number,  \* the caller id of the last setup event (<< >> when absent)
  state,          \* the session's state dict
  history,        \* the rolling chat history
  pc,             \* "running", "crashed" (an exception left relay), "closed"
  logs,           \* the per-day record logs: day -> lines
  ics,            \* ids with a calendar file
  nextId,         \* the next record id
  ev,             \* the last event handled: type, text (and, for a prompt with
                  \* text, what the chat call does if the turn makes it)
  pre,            \* the session just before the last event
  out,            \* frames sent while handling the last event
  calls,          \* save_booking / save_optout / observe / chat calls made by the
                  \* last event
  script,         \* the non-empty prompts of the call so far, each with its
                  \* spoken replies and the calls it made
  callerSeen,     \* whether a caller id was present (TRUE) or absent (FALSE) at
                  \* those prompts: the set of the values seen
  committed       \* the records save_booking and save_optout have returned, each
                  \* with the call it was returned to

vars ==
  <<caller_number, state, history, pc, logs, ics, nextId, ev, pre, out, calls, script,
    callerSeen, committed>>

\* one "prompt" event with non-empty text: app.py 503-755.  The stages run in
\* the order of the source; a stage that ended the turn (continue, or an
\* exception) is final, which every later stage checks first (c.done).
TurnStart(st, hist, lg, ic, nid) ==
  [st |-> st, hist |-> hist, out |-> << >>, done |-> FALSE, crashed |-> FALSE,
   logs |-> lg, ics |-> ic, nextId |-> nid, calls |-> << >>, saved |-> << >>]

\* app.py 509-731: the turn up to the chat fallthrough
BeforeChat(c0, cn, u, wfail) ==
  HardGate(
    BookingConfirm(
      OptOutFlow(
        OptOutAnytime(
          DateClarify(
            LanguageSelect(
              LegacyGate(CaptureGate(c0, cn, u), cn, u),
              u),
            u),
          cn, u),
        cn, u, wfail),
      cn, u, wfail),
    cn)

Turn(st, cn, hist, lg, ic, nid, u, llm, wfail) ==
  ChatFallthrough(BeforeChat(TurnStart(st, hist, lg, ic, nid), cn, u, wfail), u, llm)

\* the keys of the spoken replies among frames
RECURSIVE ReplyKeys(_)
ReplyKeys(fs) ==
  IF fs = << >> THEN << >>
  ELSE (IF Head(fs).type = "text" THEN <<Head(fs).key>> ELSE << >>) \o ReplyKeys(Tail(fs))

Snapshot == [st |-> state, hist |-> history, logs |-> logs, ics |-> ics]

Init ==
  /\ caller_number = << >>
  /\ state = InitState
  /\ history = << >>
  /\ pc = "running"
  /\ logs = [d \in Days |-> << >>]
  /\ ics = {}
  /\ nextId = 1
  /\ ev = [type |-> "connect", text |-> << >>]
  /\ pre = [st |-> InitState, hist |-> << >>, logs |-> [d \in Days |-> << >>], ics |-> {}]
  /\ out = << >>
  /\ calls = << >>
  /\ script = << >>
  /\ callerSeen = {}
  /\ committed = << >>

\* app.py 499-501
Setup(from) ==
  /\ pc = "running"
  /\ caller_number' = (IF from = "" THEN << >> ELSE <<from>>)
  /\ ev' = [type |-> "setup", text |-> << >>]
  /\ pre' = Snapshot
  /\ out' = << >>
  /\ calls' = << >>
  /\ UNCHANGED <<state, history, pc, logs, ics, nextId, script, callerSeen, committed>>

\* app.py 503-506: a prompt whose text is empty is skipped
PromptEmpty ==
  /\ pc = "running"
  /\ ev' = [type |-> "prompt", text |-> << >>]
  /\ pre' = Snapshot
  /\ out' = << >>
  /\ calls' = << >>
  /\ UNCHANGED <<caller_number, state, history, pc, logs, ics, nextId, script, callerSeen, committed>>

\* app.py 503-755
Prompt(u, llm, wfail) ==
  /\ pc = "running"
  /\ u # << >>
  /\ Len(script) < MaxTurns
  /\ LET r == Turn(state, caller_number, history, logs, ics, nextId, u, llm, wfail)
     IN  /\ state' = r.st
         /\ history' = r.hist
         /\ logs' = r.logs
         /\ ics' = r.ics
         /\ nextId' = r.nextId
         /\ out' = r.out
         /\ calls' = r.calls
         /\ pc' = (IF r.crashed THEN "crashed" ELSE "running")
         /\ script' = Append(script, [text |-> u, replies |-> ReplyKeys(r.out),
                                      calls |-> r.calls])
         /\ committed' = committed \o [i \in 1..Len(r.saved) |-> [call |-> 1, rec |-> r.saved[i]]]
  /\ callerSeen' = callerSeen \cup {Truthy(caller_number)}
  /\ ev' = [type |-> "prompt", text |-> u, llm |-> llm]
  /\ pre' = Snapshot
  /\ UNCHANGED caller_number

\* a slip: the interrupt re-arms the capture the way 655-657 start it, with a
\* new collector
InterruptState_m(st) ==
  [st EXCEPT !.capture_next = "name", !.name_collector = NewCollector]

\* a slip: the test of need at 759 is left out, every interrupt arms name capture
InterruptAnySlot_m(st) == [st EXCEPT !.capture_next = "name"]

\* app.py 757-761
InterruptState(st) == IF st.need = "name" THEN [st EXCEPT !.capture_next = "name"] ELSE st

Interrupt ==
  /\ pc = "running"
  /\ state' = InterruptState(state)
  /\ ev' = [type |-> "interrupt", text |-> << >>]
  /\ pre' = Snapshot
  /\ out' = << >>
  /\ calls' = << >>
  /\ UNCHANGED <<caller_number, history, pc, logs, ics, nextId, script, callerSeen, committed>>

\* app.py 763-765
ErrorEvent ==
  /\ pc = "running"
  /\ ev' = [type |-> "error", text |-> << >>]
  /\ pre' = Snapshot
  /\ out' = << >>
  /\ calls' = << >>
  /\ UNCHANGED <<caller_number, state, history, pc, logs, ics, nextId, script, callerSeen, committed>>

\* app.py 767-768: receive_json raises WebSocketDisconnect, which ends the loop
Disconnect ==
  /\ pc = "running"
  /\ pc' = "closed"
  /\ ev' = [type |-> "disconnect", text |-> << >>]
  /\ pre' = Snapshot
  /\ out' = << >>
  /\ calls' = << >>
  /\ UNCHANGED <<caller_number, state, history, logs, ics, nextId, script, callerSeen, committed>>

WriteFailures == {"none", "ics", "log", "mirror"}

\* what the turn for utterance u calls when nothing fails
CallsOf(u) ==
  Range(Turn(state, caller_number, history, logs, ics, nextId, u, "text", "none").calls)

\* the outcome of the chat call is drawn only in a turn that makes the call, and
\* a failing write only in a turn that writes
LlmChoices(u) == IF "llm" \in CallsOf(u) THEN LlmOutcomes ELSE {"text"}

WriteChoices(u) ==
  IF CallsOf(u) \cap {"save_booking", "save_optout"} # {} THEN WriteFailures ELSE {"none"}

Next ==
  \/ \E from \in CallerIds : Setup(from)
  \/ PromptEmpty
  \/ \E u \in Utterances \ {U_EMPTY} :
        \E llm \in LlmChoices(u), wfail \in WriteChoices(u) : Prompt(u, llm, wfail)
  \/ Interrupt
  \/ ErrorEvent
  \/ Disconnect

Spec == Init /\ [][Next]_vars

\* ================================================= the persistence layer
\* The persistence functions and the two read endpoints, called directly: by
\* the handlers of several calls (save_booking, save_optout) and by HTTP
\* clients (/reports/{day}, /ics/{bid}.ics).  The functions are synchronous,
\* so on the one event loop of the process each call of one runs to its end
\* before any other handler runs.
MaxSaves == 2

CallIds == {1, 2}

\* the caller id of each call: call 1 has one, call 2 has none
CallerOf(call) == IF call = 1 THEN <<"+1555010002">> ELSE << >>

StoreStarts == {[date |-> "thu", time |-> "1pm"], NowDt}

StoreNames == {<<"John", "Smith">>, <<"John", LS, "Smith">>}

StoreCtx ==
  [st |-> state, hist |-> history, out |-> << >>, done |-> FALSE, crashed |-> FALSE,
   logs |-> logs, ics |-> ics, nextId |-> nextId, calls |-> << >>, saved |-> << >>]

\* a call of save_booking or save_optout returned r: the files are as it left
\* them, the record (if one was returned) is the caller's
Saved(call, op, r) ==
  /\ logs' = r.logs
  /\ ics' = r.ics
  /\ nextId' = r.nextId
  /\ calls' = r.calls
  /\ out' = r.saved
  /\ committed' = committed \o [i \in 1..Len(r.saved) |-> [call |-> call, rec |-> r.saved[i]]]
  /\ ev' = [type |-> op, call |-> call, raised |-> r.crashed]
  /\ pre' = Snapshot
  /\ UNCHANGED <<caller_number, state, history, pc, script, callerSeen>>

CommitBooking(call, start_dt, name, wfail) ==
  /\ nextId <= MaxSaves
  /\ Saved(call, "save_booking",
           save_booking(StoreCtx, start_dt, CallerOf(call), name, U_ADDRESS, wfail))

CommitOptout(call, name, wfail) ==
  /\ nextId <= MaxSaves
  /\ Saved(call, "save_optout",
           save_optout(StoreCtx, CallerOf(call), name, U_ADDRESS, wfail))

\* GET /reports/{day}: report_day, render_report_csv; an exception of read_text
\* leaves render_report_csv and the endpoint, and no text is returned
ReportDay(day) ==
  /\ out' = (IF read_text_raises(logs[day]) THEN << >>
             ELSE <<render_report_csv(logs, day)>>)
  /\ ev' = [type |-> "report", day |-> day, raised |-> read_text_raises(logs[day])]
  /\ pre' = Snapshot
  /\ calls' = << >>
  /\ UNCHANGED <<caller_number, state, history, pc, logs, ics, nextId, script,
                 callerSeen, committed>>

\* GET /ics/{bid}.ics
GetIcs(bid) ==
  /\ out' = <<get_ics(ics, bid)>>
  /\ ev' = [type |-> "ics", bid |-> bid]
  /\ pre' = Snapshot
  /\ calls' = << >>
  /\ UNCHANGED <<caller_number, state, history, pc, logs, ics, nextId, script,
                 callerSeen, committed>>

NextStore ==
  \/ \E call \in CallIds, start_dt \in StoreStarts, name \in StoreNames,
        wfail \in WriteFailures : CommitBooking(call, start_dt, name, wfail)
  \/ \E call \in CallIds, name \in StoreNames, wfail \in {"none", "log"} :
        CommitOptout(call, name, wfail)
  \/ \E day \in Days : ReportDay(day)
  \/ \E bid \in 1..MaxSaves : GetIcs(bid)

SpecStore == Init /\ [][NextStore]_vars

\* ================================================== reports of any log
\* render_report_csv on a day's file of any content: lines the program wrote
\* and lines it did not, in any order.
MaxLines == 3

\* two records as save_booking and save_optout write them, and a booking whose
\* name holds U+2028
FileRecords ==
  { [type |-> "booking", id |-> 1, created_at |-> <<"utcnow">>,
     start |-> <<"today", "1pm">>, end |-> <<"today", "1pm", "+30min">>,
     caller |-> <<"+1555010002">>, name |-> <<"John", "Smith">>, address |-> U_ADDRESS,
     note |-> <<"Consultation">>, calendar_link |-> << >>],
    [type |-> "optout", id |-> 2, created_at |-> <<"utcnow">>,
     start |-> << >>, end |-> << >>,
     caller |-> << >>, name |-> <<"John", "Smith">>, address |-> U_ADDRESS,
     note |-> <<"DNC request">>, calendar_link |-> << >>],
    [type |-> "booking", id |-> 3, created_at |-> <<"utcnow">>,
     start |-> <<"today", "1pm">>, end |-> <<"today", "1pm", "+30min">>,
     caller |-> <<"+1555010002">>, name |-> <<"John", LS, "Smith">>, address |-> U_ADDRESS,
     note |-> <<"Consultation">>, calendar_link |-> << >>] }

FileLines == FileRecords \cup { ForeignLine(k) : k \in ForeignKinds }

FileContents == UNION { [1..n -> FileLines] : n \in 0..MaxLines }

\* the process starts with today's file holding any content
InitReport ==
  /\ caller_number = << >>
  /\ state = InitState
  /\ history = << >>
  /\ pc = "running"
  /\ logs \in { [d \in Days |-> IF d = Today THEN l ELSE << >>] : l \in FileContents }
  /\ ics = {}
  /\ nextId = 1
  /\ ev = [type |-> "connect", text |-> << >>]
  /\ pre = [st |-> InitState, hist |-> << >>, logs |-> logs, ics |-> {}]
  /\ out = << >>
  /\ calls = << >>
  /\ script = << >>
  /\ callerSeen = {}
  /\ committed = << >>

NextReport == \E day \in Days : ReportDay(day)

SpecReport == InitReport /\ [][NextReport]_vars

\* ===================================================== the Name Collector
\* NameCollector objects on their own: constructed, then fed utterances.
MaxObserves == 3

NameUtterances ==
  { << >>, <<"John">>, <<"john">>, <<"Smith">>, <<"John", "Smith">>, <<"123">>,
    <<"thursday", "at", "1pm">> }

\* NameCollector(): a fresh collector
Construct ==
  /\ state.name_collector # NewCollector
  /\ state' = [state EXCEPT !.name_collector = NewCollector]
  /\ ev' = [type |-> "construct", text |-> << >>]
  /\ pre' = Snapshot
  /\ out' = << >>
  /\ UNCHANGED <<caller_number, history, pc, logs, ics, nextId, calls, script,
                 callerSeen, committed>>

\* collector.observe(text)
Observe(u) ==
  /\ state.name_collector.exists
  /\ Len(script) < MaxObserves
  /\ LET r == observe(state.name_collector, u)
     IN  /\ state' = [state EXCEPT !.name_collector = r.nc]
         /\ out' = <<[done |-> r.done, full |-> r.full]>>
  /\ script' = Append(script, [text |-> u, replies |-> << >>, calls |-> << >>])
  /\ ev' = [type |-> "observe", text |-> u]
  /\ pre' = Snapshot
  /\ UNCHANGED <<caller_number, history, pc, logs, ics, nextId, calls, callerSeen,
                 committed>>

NextNames ==
  \/ Construct
  \/ \E u \in NameUtterances : Observe(u)

SpecNames == Init /\ [][NextNames]_vars

\* ====================================================== the date parser
\* parse_date_phrase on its own, for a text and a reference "now"
\* (extract_datetime reads the clock at each call).
MaxNow == 13

DateTexts ==
  { <<WeekdayNames[k]>> : k \in 1..Len(WeekdayNames) } \cup
  { <<"thursday", "at", "1pm">>, <<"today">>, <<"tomorrow">>, <<"in", "3", "days">>,
    <<"John", "Smith">> }

ParseDate(u, now) ==
  /\ out' = <<parse_date_phrase(u, now)>>
  /\ ev' = [type |-> "parse_date", text |-> u, now |-> now]
  /\ pre' = Snapshot
  /\ UNCHANGED <<caller_number, state, history, pc, logs, ics, nextId, calls, script,
                 callerSeen, committed>>

NextDates == \E u \in DateTexts, now \in 0..MaxNow : ParseDate(u, now)

SpecDates == Init /\ [][NextDates]_vars

\* ================================================================= claims
\* the last event was a prompt carrying non-empty text
PromptTurn == ev.type = "prompt" /\ ev.text # << >>

\* a spoken reply went out: a text frame with last = true
Replied == \E i \in 1..Len(out) : out[i].type = "text" /\ out[i].last

\* lines of a given type the last event added to the logs
Added(type) ==
  { <<d, i>> \in Days \X (1..(2 * MaxTurns)) :
      /\ i > Len(pre.logs[d]) /\ i <= Len(logs[d])
      /\ logs[d][i].type = type }

BookingWritten == "save_booking" \in Range(calls) \/ Added("booking") # {}

OptOutWritten == "save_optout" \in Range(calls) \/ Added("optout") # {}

\* an utterance that is an affirmative and nothing else
BareYes(u) == u # << >> /\ \A i \in 1..Len(u) : Lower(u[i]) \in YesWords

\* ----------------------------------------------------------------- C1
\* the last event was a turn in which a booking may commit: it started in
\* mode booking with need confirm, its utterance is an affirmative, and date,
\* time, name, address and (phone or caller id) were all held
BookingCommitTurn ==
  /\ PromptTurn
  /\ pre.st.mode = "booking" /\ pre.st.need = "confirm"
  /\ YES_RE(ev.text)
  /\ pre.st.hold_date # NONE /\ pre.st.hold_time # NONE
  /\ Truthy(pre.st.hold_name) /\ Truthy(pre.st.hold_address)
  /\ (Truthy(pre.st.hold_phone) \/ Truthy(caller_number))

\* C1: whatever events came before, an event that is not such a turn neither
\* invokes save_booking nor adds a booking line to a log.
C1_BookingOnlyInConfirmTurn == ~BookingCommitTurn => ~BookingWritten

\* an affirmative was handled outside CONFIRM, after a setup event gave a
\* caller id: it was answered and nothing was committed
C1_Witness ==
  /\ PromptTurn /\ YES_RE(ev.text) /\ ~BookingCommitTurn
  /\ Truthy(caller_number) /\ Replied /\ pc = "running"

\* ----------------------------------------------------------------- C2
\* the system's turn just before the last prompt was its scheduling offer (the
\* greeting, "I can answer questions or help schedule a consultation")
OfferJustMade ==
  /\ Len(script) >= 2
  /\ \E i \in 1..Len(script[Len(script) - 1].replies) :
        script[Len(script) - 1].replies[i] \in {"intro_en", "intro_es"}

\* a bare affirmative with no scheduling offer just before it, no scheduling
\* keyword in it and no date and time supplied
BlockedYesTurn ==
  /\ PromptTurn /\ BareYes(ev.text)
  /\ ~OfferJustMade
  /\ ~SCHEDULING_HINT_RE(ev.text)
  /\ (pre.st.hold_dt = NoDt /\ (pre.st.hold_date = NONE \/ pre.st.hold_time = NONE))

\* C2: such a turn writes no record of any kind and still produces a reply.
C2_AntiLoopGuard ==
  BlockedYesTurn => /\ ~BookingWritten
                    /\ logs = pre.logs /\ ics = pre.ics
                    /\ Replied

\* a blocked bare "yes" that went to the chat and was answered by it
C2_Witness ==
  BlockedYesTurn /\ "llm" \in Range(calls) /\ Replied /\ logs = pre.logs /\ pc = "running"

\* ----------------------------------------------------------------- C3
\* the last event was a turn in which an opt-out may commit
OptOutCommitTurn ==
  /\ PromptTurn
  /\ pre.st.mode = "optout" /\ pre.st.need = "confirm"
  /\ YES_RE(ev.text)
  /\ Truthy(pre.st.hold_name) /\ Truthy(pre.st.hold_address)
  /\ (Truthy(pre.st.hold_phone) \/ Truthy(caller_number))

\* C3: an event that is not such a turn neither invokes save_optout nor adds
\* an opt-out line to a log.
C3_OptOutOnlyInConfirmTurn == ~OptOutCommitTurn => ~OptOutWritten

\* the opt-out request itself: the mode is optout, nothing has been committed
C3_Witness ==
  /\ PromptTurn /\ OPT_OUT_RE(ev.text) /\ state.mode = "optout"
  /\ ~OptOutCommitTurn /\ ~OptOutWritten

\* ----------------------------------------------------------------- C4
\* C4: every prompt with non-empty text is answered in its turn by a spoken
\* reply, and the handler is still running after it.
C4_EveryPromptAnswered == PromptTurn => (Replied /\ pc = "running")

\* ----------------------------------------------------------------- C7
\* the utterances of Scenario A and the reply each must get
ScenarioA == <<U_DATETIME, U_NAME, U_ADDRESS, U_YES>>

RepliesA == <<{"ask_name"}, {"ask_address"}, {"confirm_booking"}, {"booked"}>>

\* the prompts script[s..] are the first k utterances of scenario sc, in a call
\* whose caller id was present (withCaller) or absent at every prompt
RunsScenario(sc, s, k, withCaller) ==
  /\ s >= 1 /\ k >= 1 /\ k <= Len(sc) /\ s + k - 1 = Len(script)
  /\ \A j \in 1..k : script[s + j - 1].text = sc[j]
  /\ callerSeen = {withCaller}

\* turn j of the run was answered by exactly one spoken reply, of the kind due
AnsweredAsDue(due, s, j) ==
  /\ Len(script[s + j - 1].replies) = 1
  /\ script[s + j - 1].replies[1] \in due[j]

\* the number of calls of a persistence function made by the turns s..s+k-1
RECURSIVE Commits(_, _, _)
Commits(fn, s, k) ==
  IF k = 0 THEN 0
  ELSE Cardinality({ i \in 1..Len(script[s + k - 1].calls) : script[s + k - 1].calls[i] = fn })
       + Commits(fn, s, k - 1)

\* C7 (Scenario A): with a caller id present, as far as a call has run through
\* <date+time, full name, street address, yes>, each utterance got the reply
\* due in order (name prompt, address prompt, confirmation, booked), and the
\* completed run made exactly one booking.
C7_ScenarioA ==
  \A s \in 1..MaxTurns, k \in 1..Len(ScenarioA) :
     RunsScenario(ScenarioA, s, k, TRUE) =>
        /\ \A j \in 1..k : AnsweredAsDue(RepliesA, s, j)
        /\ Commits("save_booking", s, k) = (IF k = Len(ScenarioA) THEN 1 ELSE 0)

\* ----------------------------------------------------------------- C8
ScenarioB == <<U_OPTOUT, U_NAME, U_ADDRESS, U_PHONE, U_YES>>

RepliesB == <<{"ask_name", "opt_start"}, {"ask_address", "opt_addr"},
              {"ask_phone", "opt_phone"}, {"opt_confirm", "confirm_booking"},
              {"opt_done"}>>

\* C8 (Scenario B): with no caller id, as far as a call has run through
\* <opt-out request, full name, street address, phone number, yes>, each
\* utterance got the reply due in order (name, address, phone, confirmation,
\* opt-out done), and the completed run made exactly one opt-out record.
C8_ScenarioB ==
  \A s \in 1..MaxTurns, k \in 1..Len(ScenarioB) :
     RunsScenario(ScenarioB, s, k, FALSE) =>
        /\ \A j \in 1..k : AnsweredAsDue(RepliesB, s, j)
        /\ Commits("save_optout", s, k) = (IF k = Len(ScenarioB) THEN 1 ELSE 0)

\* ----------------------------------------------------------------- C10
\* the utterance asks for the language other than lang
RequestsOther(u, lang) ==
  (lang = "en" /\ LANG_ES_RE(u)) \/ (lang = "es" /\ LANG_EN_RE(u))

\* C10: once the language is set, an event leaves it as it was, unless the
\* event is an utterance that asks for the other language.
C10_LanguageKept ==
  pre.st.lang # NONE =>
     \/ state.lang = pre.st.lang
     \/ (PromptTurn /\ RequestsOther(ev.text, pre.st.lang) /\ state.lang \in Langs)

\* Spanish was chosen, and a later utterance that names no language was
\* answered with the language still Spanish
C10_Witness ==
  /\ pre.st.lang = "es" /\ PromptTurn /\ ~RequestsOther(ev.text, "es")
  /\ Replied /\ state.lang = "es"

\* ----------------------------------------------------------------- C11
\* the token appears in some field of some row of the CSV text
InCsv(csv, tok) ==
  \E r \in 1..Len(csv) : \E k \in 1..Len(csv[r]) : \E i \in 1..Len(csv[r][k]) :
     csv[r][k][i] = tok

\* the calendar file stored under the record's id carries that id
IdInCalendar(rec) == \E f \in ics : f.name = rec.id /\ f.text.uid = rec.id

\* the report rendered for the record's appointment date carries its id
IdInReport(rec) == InCsv(render_report_csv(logs, rec.start[1]), ToString(rec.id))

\* C11: the id of every booking save_booking has returned is in the calendar
\* file stored under that id and in the CSV report of the booking's
\* appointment date.
C11_RoundTrip ==
  \A i \in 1..Len(committed) :
     committed[i].rec.type = "booking" =>
        IdInCalendar(committed[i].rec) /\ IdInReport(committed[i].rec)

\* ----------------------------------------------------------------- C12
IsPrefix(a, b) == Len(a) <= Len(b) /\ SubSeq(b, 1, Len(a)) = a

\* the lines of a day's log, as a reader finds them
LinesOf(lg, day) == splitlines(lg[day])

\* C12: whatever was called before, every line that was in a day's log before
\* an operation is in it after the operation, unchanged and at the same
\* position (the operation only adds lines at the end), and rendering a report
\* adds none.
C12_AppendOnly ==
  /\ \A d \in Days : IsPrefix(LinesOf(pre.logs, d), LinesOf(logs, d))
  /\ (ev.type = "report" => logs = pre.logs)

\* a record was saved into a log that already held lines
C12_Witness ==
  /\ ev.type \in {"save_booking", "save_optout"}
  /\ \E d \in Days : pre.logs[d] # << >> /\ Len(logs[d]) > Len(pre.logs[d])

\* ----------------------------------------------------------------- C13
\* the log a record is committed to: the appointment date's for a booking,
\* the current date's for an opt-out
DayOf(rec) == IF rec.type = "booking" THEN rec.start[1] ELSE Today

\* the positions of the day's log that hold exactly this record
LinesHolding(rec) == { i \in 1..Len(logs[DayOf(rec)]) : logs[DayOf(rec)][i] = rec }

\* the line is a committed record, or the mirror copy of a committed booking
IsCommitted(line) ==
  \E i \in 1..Len(committed) :
     \/ line = committed[i].rec
     \/ /\ committed[i].rec.type = "booking"
        /\ line = [committed[i].rec EXCEPT !.note = <<"Consultation", "mirror=true">>]

\* C13: in whatever order the handlers of the calls commit, every record
\* returned to a call is in its day's log as one whole line, exactly once (none
\* is lost or overwritten), and the logs hold nothing but whole committed lines.
C13_ConcurrentCommits ==
  /\ \A i \in 1..Len(committed) : Cardinality(LinesHolding(committed[i].rec)) = 1
  /\ \A d \in Days : \A k \in 1..Len(logs[d]) : IsCommitted(logs[d][k])

\* two different calls have each committed a record to the same day's log
C13_Witness ==
  \E i, j \in 1..Len(committed) :
     /\ committed[i].call # committed[j].call
     /\ DayOf(committed[i].rec) = DayOf(committed[j].rec)
     /\ LinesHolding(committed[i].rec) # {} /\ LinesHolding(committed[j].rec) # {}

\* ----------------------------------------------------------------- C14
\* the day has no records: no log file, or a log none of whose lines parses
NoRecords(lg, day) ==
  \A i \in 1..Len(splitlines(lg[day])) : json_loads_raises(splitlines(lg[day])[i])

TwoNameTokens(u) == Len(NameTokens(u)) >= 2

\* the pair is two adjacent name tokens of the utterance
AdjacentIn(u, pair) ==
  \E i \in 1..(Len(NameTokens(u)) - 1) : pair = <<NameTokens(u)[i], NameTokens(u)[i + 1]>>

\* C15: whatever the collector holds, observe of an utterance with two
\* adjacent name tokens returns done with a full name made of two adjacent
\* name tokens of that utterance, which the collector then holds as first and
\* last name.
C15_FastPath ==
  (ev.type = "observe" /\ TwoNameTokens(ev.text)) =>
     /\ out[1].done
     /\ AdjacentIn(ev.text, out[1].full)
     /\ <<state.name_collector.first, state.name_collector.last>> = out[1].full

\* a collector that already held a first name was given a two-token name and
\* returned done with that name
C15_Witness ==
  /\ ev.type = "observe" /\ TwoNameTokens(ev.text)
  /\ pre.st.name_collector.first # NONE /\ pre.st.name_collector.last = NONE
  /\ out[1].done /\ out[1].full = <<"John", "Smith">>

\* ----------------------------------------------------------------- C17
\* the text is a weekday name, alone or with words that name no other date
NamesWeekday(u) ==
  /\ \E k \in 1..Len(WeekdayNames) : HasWord(u, {WeekdayNames[k]})
  /\ InDaysAt(u) = {} /\ ~HasWord(u, {"today", "hoy", "tomorrow", "manana", "mañana"})

\* C17: for every weekday name and every "now", the date returned falls on
\* that weekday, strictly after now's date and at most 7 days after it; when
\* today is that weekday it is exactly 7 days ahead.
C17_NextWeekday ==
  (ev.type = "parse_date" /\ NamesWeekday(ev.text)) =>
     /\ out[1].some
     /\ out[1].ord > ev.now /\ out[1].ord <= ev.now + 7
     /\ weekday(out[1].ord) = WEEKDAYS(FirstWeekday(ev.text))
     /\ (weekday(ev.now) = WEEKDAYS(FirstWeekday(ev.text)) => out[1].ord = ev.now + 7)

\* today is the named weekday and the date returned is a week ahead
C17_Witness ==
  /\ ev.type = "parse_date" /\ NamesWeekday(ev.text)
  /\ weekday(ev.now) = WEEKDAYS(FirstWeekday(ev.text))
  /\ out[1] = DateOf(ev.now + 7)

\* ----------------------------------------------------------------- C20
\* the slots a flow can be waiting for
Slots == {"date", "time", "name", "address", "phone"}

\* C20: an interrupt event is answered by a spoken acknowledgement, and when a
\* slot was pending its capture is armed for the next utterance.
C20_InterruptAcknowledged ==
  ev.type = "interrupt" =>
     /\ Replied
     /\ (pre.st.need \in Slots => state.capture_next = pre.st.need)

\* ----------------------------------------------------------------- C21
\* the fields of the session other than the capture flag
KeptByInterrupt(st) == [st EXCEPT !.capture_next = NONE]

\* C21: an interrupt event leaves the Name Collector (its first binding, its
\* last name, its repeat count), every held slot value and every other field
\* of the session as they were; it may change the capture flag alone, and it
\* touches neither the history nor the files.
C21_InterruptFrame ==
  ev.type = "interrupt" =>
     /\ state.name_collector = pre.st.name_collector
     /\ state.hold_name = pre.st.hold_name
     /\ state.hold_address = pre.st.hold_address
     /\ state.hold_phone = pre.st.hold_phone
     /\ state.hold_date = pre.st.hold_date /\ state.hold_time = pre.st.hold_time
     /\ state.hold_dt = pre.st.hold_dt
     /\ KeptByInterrupt(state) = KeptByInterrupt(pre.st)
     /\ history = pre.hist /\ logs = pre.logs /\ ics = pre.ics

\* an interrupt arrived in a call whose language had been chosen and whose
\* greeting had been spoken, and the session is as it was
C21_Witness ==
  /\ ev.type = "interrupt" /\ pc = "running"
  /\ pre.st.lang \in Langs /\ pre.st.offered_booking
  /\ state = pre.st

\* ----------------------------------------------------------------- C22
\* observe was called with a single name token on a collector that held a
\* first name
SecondTurn ==
  /\ ev.type = "observe"
  /\ pre.st.name_collector.first # NONE
  /\ Len(NameTokens(ev.text)) = 1

\* C22: on such a call, a token that differs from the first name (compared
\* after lower-casing) gives done with "First Last"; a token that repeats the
\* first name gives not-done and a repeat count one higher.
C22_SecondTurn ==
  SecondTurn =>
     LET tok == NameTokens(ev.text)[1]
         nc0 == pre.st.name_collector
     IN  IF Lower(tok) # Lower(nc0.first)
         THEN out[1].done /\ out[1].full = <<nc0.first, tok>>
         ELSE ~out[1].done /\ state.name_collector.repeats = nc0.repeats + 1

\* ----------------------------------------------------------------- C23
NamesNoLanguage(u) == ~LANG_ES_RE(u) /\ ~LANG_EN_RE(u)

\* the last event was an utterance naming no language, in a call whose
\* language was unset
LangUnsetTurn == PromptTurn /\ pre.st.lang = NONE /\ NamesNoLanguage(ev.text)

\* the turns of the call so far that were answered by the language question
LanguagePrompts ==
  { i \in 1..Len(script) : "lang_choice" \in Range(script[i].replies) }

\* the last turn sent the switch to English and then went as the same utterance
\* goes in a call whose language is English
ProcessedInEnglish ==
  \E llm \in LlmOutcomes :
     LET r == Turn([pre.st EXCEPT !.lang = "en"], caller_number, pre.hist, pre.logs,
                   pre.ics, nextId, ev.text, llm, "none")
     IN  /\ out = <<LanguageFrame("en-US", "en-US")>> \o r.out
         /\ state = r.st /\ history = r.hist
         /\ (pc = "crashed") = r.crashed

ProposedBooking(i) ==
  \E k \in 1..Len(script[i].replies) : script[i].replies[k] \in {"intro_en", "intro_es"}

\* C24: offered_booking is true only while the latest turn of the call is one
\* in which the system proposed booking, and a caller turn that starts with it
\* true and makes no new proposal ends with it false.
C24_OfferConsumed ==
  /\ state.offered_booking => (script # << >> /\ ProposedBooking(Len(script)))
  /\ (PromptTurn /\ pre.st.offered_booking /\ ~ProposedBooking(Len(script))) =>
        ~state.offered_booking

\* ----------------------------------------------------------------- C25
\* the last event called NameCollector.observe
ObserveInvoked == "observe" \in Range(calls)

\* C25: a turn calls the Name Collector's observe only if need was name when
\* the turn began, and whenever capture_next is name, need is name.
C25_CollectorOnlyForName ==
  /\ ObserveInvoked => pre.st.need = "name"
  /\ state.capture_next = "name" => state.need = "name"

\* an opt-out request armed the name capture: capture_next is name, with need
\* name and a new collector
C25_Witness ==
  /\ PromptTurn /\ OPT_OUT_RE(ev.text)
  /\ state.capture_next = "name" /\ state.need = "name"
  /\ state.name_collector = NewCollector

\* ----------------------------------------------------------------- C26
\* the last event was an utterance matching the opt-out intent
OptOutUtterance == PromptTurn /\ OPT_OUT_RE(ev.text)

\* C26: whatever the session was doing, after an utterance matching the
\* opt-out intent the mode is optout, no booking record has been written by
\* the turn, and the held name, address and phone are as they were.
C26_OptOutFromAnyPhase ==
  OptOutUtterance =>
     /\ state.mode = "optout"
     /\ ~BookingWritten
     /\ state.hold_name = pre.st.hold_name
     /\ state.hold_address = pre.st.hold_address
     /\ state.hold_phone = pre.st.hold_phone

\* ----------------------------------------------------------------- C27
\* the last event was a turn that made the chat call, and the call raised
LlmFailed == PromptTurn /\ "llm" \in Range(calls) /\ ev.llm = "raise"

\* the session as it was when the turn made the chat call
SessionAtCall ==
  BeforeChat(TurnStart(pre.st, pre.hist, pre.logs, pre.ics, nextId),
             caller_number, ev.text, "none").st

NewLines(d) == SubSeq(logs[d], Len(pre.logs[d]) + 1, Len(logs[d]))

\* how many of the lines are this record
CountOf(lines, rec) == Cardinality({ i \in 1..Len(lines) : lines[i] = rec })

\* the last operation was a save_booking that returned its record
BookingReturned == ev.type = "save_booking" /\ ~ev.raised /\ Len(out) = 1

\* C28: a save_booking that returns has written its record as one line, the
\* first one added, to the log of the appointment's date (the date of start),
\* and to no other day's log, the call date's included; and a calendar file
\* named by the record's id, carrying that id and start, exists.
C28_KeyedByAppointmentDate ==
  BookingReturned =>
     LET rec == out[1]
         day == rec.start[1]
     IN  /\ NewLines(day) # << >> /\ NewLines(day)[1] = rec
         /\ CountOf(NewLines(day), rec) = 1
         /\ \A d \in Days \ {day} : CountOf(NewLines(d), rec) = 0
         /\ \E f \in ics : /\ f.name = rec.id
                           /\ f.text.uid = rec.id /\ f.text.dtstart = rec.start
         /\ ~\E f \in pre.ics : f.name = rec.id

\* a booking for Thursday was saved on another day: its line is in Thursday's
\* log, today's log got the mirror copy alone, and the calendar file is there
C28_Witness ==
  /\ BookingReturned
  /\ out[1].start[1] = "thu" /\ Today # "thu"
  /\ NewLines("thu") = <<out[1]>>
  /\ Len(NewLines(Today)) = 1 /\ NewLines(Today)[1] # out[1]
  /\ \E f \in ics : f.name = out[1].id

\* ----------------------------------------------------------------- C29
\* the line, as the reader finds it, is the whole text of a record
WellFormed(line) == line.pieces = 1 /\ line.of.type \in {"booking", "optout"}

\* the well-formed lines of a day's file, in the order of the file
WellFormedLines(lg, day) == SelectSeq(splitlines(lg[day]), WellFormed)

\* C29: whatever the day's file holds, rendering its report does not abort,
\* and the text returned is the header row followed by exactly one row for
\* each well-formed line, in the order of the file; every other line is
\* skipped.
C29_ResilientRender ==
  ev.type = "report" =>
     /\ ~ev.raised
     /\ Len(out) = 1
     /\ LET wf == WellFormedLines(logs, ev.day)
        IN  /\ out[1][1] = header
            /\ Len(out[1]) = 1 + Len(wf)
            /\ \A k \in 1..Len(wf) : out[1][k + 1][1] = safe(<<ToString(wf[k].of.id)>>)

C32_NoSlotWithoutFlow ==
  state.mode = NONE => (state.need = NONE /\ state.capture_next = NONE)

\* an interrupt arrived in a call with a language chosen and no flow active:
\* it armed no capture, and no slot is pending
C32_Witness ==
  /\ ev.type = "interrupt" /\ pc = "running" /\ state.lang \in Langs
  /\ state.mode = NONE /\ state.need = NONE /\ state.capture_next = NONE

\* ----------------------------------------------------------------- C33
\* a calendar file named by the id, and carrying it, exists
HasCalendarFile(id) == \E f \in ics : f.name = id /\ f.text.uid = id

\* some log holds a line with the id
InSomeLog(id) == \E d \in Days : \E i \in 1..Len(logs[d]) : logs[d][i].id = id

\* C33: at every point, failed writes included, every booking line in any
\* day's log (the mirror copies too) has a calendar file named by its id.
C33_CalendarBeforeLog ==
  \A d \in Days : \A i \in 1..Len(logs[d]) :
     logs[d][i].type = "booking" => HasCalendarFile(logs[d][i].id)

\* after one booking was saved, a second save_booking failed at the log append:
\* its calendar file exists with no log line, and the first booking has both
C33_Witness ==
  /\ ev.type = "save_booking" /\ ev.raised
  /\ \E f \in ics : ~InSomeLog(f.name)
  /\ \E d \in Days : \E i \in 1..Len(logs[d]) :
        logs[d][i].type = "booking" /\ HasCalendarFile(logs[d][i].id)

\* ----------------------------------------------------------------- C34
\* how many of the written lines carry the id
IdLines(lines, id) == Cardinality({ i \in 1..Len(lines) : lines[i].id = id })

\* how many rows of the CSV text carry the id in their first column
IdRows(csv, id) ==
  Cardinality({ r \in 1..Len(csv) : \E i \in 1..Len(csv[r][1]) : csv[r][1][i] = ToString(id) })

\* the line is a copy of the record but for its note, which ends in "mirror=true"
IsMirrorOf(line, rec) ==
  /\ line.note # << >> /\ line.note[Len(line.note)] = "mirror=true"
  /\ [line EXCEPT !.note = rec.note] = rec

\* C34: a save_booking that returns has appended the record to the log of the
\* appointment's date and a mirror copy (same id, note ending in
\* "mirror=true") to the log of the call's date. When the two dates are the
\* same, both lines are in that one file, and that date's log and its report
\* hold the booking id twice; otherwise each of the two files got exactly one
\* line with that id.
C34_MirrorToCallDate ==
  BookingReturned =>
     LET rec == out[1]
         day == rec.start[1]
     IN  /\ \E i \in 1..Len(NewLines(day)) : NewLines(day)[i] = rec
         /\ \E i \in 1..Len(NewLines(Today)) : IsMirrorOf(NewLines(Today)[i], rec)
         /\ IF day = Today
            THEN /\ IdLines(NewLines(day), rec.id) = 2
                 /\ IdLines(logs[day], rec.id) = 2
                 /\ IdRows(render_report_csv(logs, day), rec.id) = 2
            ELSE /\ IdLines(NewLines(day), rec.id) = 1
                 /\ IdLines(NewLines(Today), rec.id) = 1

=============================================================================
